---- MODULE Spec2Model ----
(***************************************************************************)
(* Model of gold-ai-free (src/main.py): a FastAPI service that publishes a *)
(* hardcoded gold trading signal through three read endpoints and relays   *)
(* it hourly to Telegram from an APScheduler interval job.                 *)
(*                                                                         *)
(* Time is a discrete clock counting 1/Resolution hours since the module   *)
(* was imported (process start).  The interval job runs send_signal in     *)
(* the scheduler's worker thread, so send_signal is split at its one       *)
(* blocking call (bot.send_message) and interleaves with the HTTP          *)
(* handlers and with the shutdown handler.  The messaging client enforces  *)
(* its own timeout of a few seconds, so a run of send_signal always ends   *)
(* before the next fire time of the job.                                   *)
(***************************************************************************)
EXTENDS Integers, Sequences, FiniteSets, TLC

VARIABLES
    BOT_TOKEN,    \* os.environ.get("BOT_TOKEN"), read once at import
    CHAT_ID,      \* os.environ.get("CHAT_ID"), read once at import
    bot,          \* module-level Bot instance, or None
    running,      \* scheduler.running
    nextRun,      \* next_run_time of the interval job
    now,          \* wall clock, in 1/Resolution hours since start
    pc,           \* position of the worker thread inside send_signal
    msg,          \* local variable msg of send_signal
    submitted,    \* text argument of the latest bot.send_message call
    sendCalls,    \* number of bot.send_message calls made so far
    ticks,        \* number of times the scheduler started send_signal
    outcome,      \* how the latest bot.send_message call ended
    failures,     \* number of bot.send_message calls that raised
    escaped,      \* TRUE once an exception left send_signal
    guardResult,  \* what the credential check of the latest run decided
    log,          \* latest record logged by send_signal
    resp,         \* latest response of each endpoint
    stale,        \* endpoints whose latest response predates the shutdown
    lastSignal,   \* record returned by the latest gold_signal() call
    lastOp,       \* the operation that made the latest step
    shutdownRan   \* TRUE once the shutdown handler has run

vars == <<BOT_TOKEN, CHAT_ID, bot, running, nextRun, now, pc, msg, submitted,
          sendCalls, ticks, outcome, failures, escaped, guardResult, log, resp,
          stale, lastSignal, lastOp, shutdownRan>>

(***************************************************************************)
(* Bounds of the model.                                                    *)
(***************************************************************************)
Resolution == 2     \* clock units per hour
MaxTime == 7        \* the clock stops advancing here

(***************************************************************************)
(* Python values and truthiness.                                           *)
(***************************************************************************)
None == [py |-> "None"]
Str(s) == [py |-> "str", v |-> s]
Bot(token) == [py |-> "Bot", token |-> token]

\* bool(x): None and the empty string are falsy; a Bot instance defines
\* neither __bool__ nor __len__ and is truthy.
Truthy(x) ==
    CASE x.py = "None" -> FALSE
      [] x.py = "str"  -> x.v # ""
      [] x.py = "Bot"  -> TRUE

\* a and b: the first operand when it is falsy, else the second
PyAnd(a, b) == IF Truthy(a) THEN b ELSE a

\* values the environment can give to a variable: unset, empty, non-empty
TokenValues == {None, Str(""), Str("123:abc")}
ChatValues == {None, Str(""), Str("42")}

\* bot = None; if BOT_TOKEN: bot = Bot(token=BOT_TOKEN)
InitBot(token) == IF Truthy(token) THEN Bot(token.v) ELSE None

(***************************************************************************)
(* Signal Provider.                                                        *)
(***************************************************************************)
gold_signal_sell ==
    [bias |-> "SELL",
     confidence |-> 70,
     reasons |-> <<"Inflation high", "Central banks buying gold",
                   "ETF inflows positive", "Geopolitical risk rising">>]

gold_signal ==
    [bias |-> "BUY",
     confidence |-> 70,
     reasons |-> <<"Inflation high", "Central banks buying gold",
                   "ETF inflows positive", "Geopolitical risk rising">>]

NoSignal == [bias |-> "", confidence |-> 0, reasons |-> <<>>]

(***************************************************************************)
(* Notifier: send_signal.                                                  *)
(***************************************************************************)
NotConfiguredBothMissing(b, c) == ~Truthy(b) /\ ~Truthy(c)

\* if not bot or not CHAT_ID
NotConfigured(b, c) == ~Truthy(b) \/ ~Truthy(c)

FormatMessageNoHeader(s) ==
    <<"GOLD SIGNAL">>
    \o <<"Bias: " \o s.bias>>
    \o <<"Confidence: " \o ToString(s.confidence) \o "%", "">>
    \o [i \in 1..Len(s.reasons) |-> "- " \o s.reasons[i]]

\* The text built by send_signal, as the sequence of its lines: each "\n"
\* ends a line, so "\n\n" ends a line and adds an empty one.
FormatMessage(s) ==
    <<"GOLD SIGNAL", "">>
    \o <<"Bias: " \o s.bias>>
    \o <<"Confidence: " \o ToString(s.confidence) \o "%", "">>
    \o <<"Reasons:">>
    \o [i \in 1..Len(s.reasons) |-> "- " \o s.reasons[i]]

\* what bot.send_message can do: return, or raise a telegram.error class
Raises == {"NetworkError", "Unauthorized"}
Outcomes == {"ok"} \cup Raises

\* classes derived from Exception
ExceptionClasses == {"TelegramError", "NetworkError", "Unauthorized"}

CaughtNetworkOnly(e) == e = "NetworkError"

\* except Exception as e
Caught(e) == e \in ExceptionClasses

(***************************************************************************)
(* Scheduler.                                                              *)
(***************************************************************************)
StartTime == 0
IntervalHours == 1
Interval == IntervalHours * Resolution

FirstRunTimeImmediate == StartTime

\* the interval trigger's start date defaults to creation time + interval
FirstRunTime == StartTime + Interval

\* the interval trigger: the fire time after fire time t
NextFireTime(t) == t + Interval

(***************************************************************************)
(* Presentation layer.                                                     *)
(***************************************************************************)
Endpoints == {"home", "signal", "health"}
NoResp == [status |-> 0]

Color(bias) ==
    IF bias = "BUY" THEN "green" ELSE IF bias = "SELL" THEN "red" ELSE "orange"

AlertsStatusTokenOnly(b, c) ==
    IF Truthy(b) THEN "Active" ELSE "Not configured"

\* 'Active' if bot and CHAT_ID else 'Not configured'
AlertsStatus(b, c) ==
    IF Truthy(PyAnd(b, c)) THEN "Active" ELSE "Not configured"

TelegramConfiguredTokenOnly(b, c) == Truthy(b)

\* bool(bot and CHAT_ID)
TelegramConfigured(b, c) == Truthy(PyAnd(b, c))

(***************************************************************************)
(* Initial state: the state once the module has been imported.             *)
(***************************************************************************)
Init ==
    /\ BOT_TOKEN \in TokenValues
    /\ CHAT_ID \in ChatValues
    /\ bot = InitBot(BOT_TOKEN)
    /\ running = TRUE
    /\ nextRun = FirstRunTime
    /\ now = StartTime
    /\ pc = "idle"
    /\ msg = <<>>
    /\ submitted = <<>>
    /\ sendCalls = 0
    /\ ticks = 0
    /\ outcome = "none"
    /\ failures = 0
    /\ escaped = FALSE
    /\ guardResult = "none"
    /\ log = "none"
    /\ resp = [e \in Endpoints |-> NoResp]
    /\ stale = {}
    /\ lastSignal = NoSignal
    /\ lastOp = "start"
    /\ shutdownRan = FALSE

config == <<BOT_TOKEN, CHAT_ID, bot>>
job == <<pc, msg, submitted, sendCalls, outcome, failures, escaped,
        guardResult, log>>
http == <<resp, stale>>

(***************************************************************************)
(* The clock.  While the scheduler runs, the job fires at its next run     *)
(* time, and a run of send_signal ends before the following fire time.     *)
(***************************************************************************)
Advance ==
    /\ now < MaxTime
    /\ running => now < nextRun
    /\ (running /\ pc # "idle") => now + 1 < nextRun
    /\ now' = now + 1
    /\ lastOp' = "advance"
    /\ UNCHANGED <<config, running, nextRun, job, ticks, http, lastSignal,
                   shutdownRan>>

\* the scheduler thread starts send_signal at the job's next run time
Tick ==
    /\ running
    /\ now = nextRun
    /\ pc = "idle"
    /\ pc' = "entry"
    /\ ticks' = ticks + 1
    /\ nextRun' = NextFireTime(nextRun)
    /\ lastOp' = "tick"
    /\ UNCHANGED <<config, running, now, msg, submitted, sendCalls, outcome,
                   failures, escaped, guardResult, log, http, lastSignal,
                   shutdownRan>>

\* send_signal up to the call of bot.send_message
SendSignalEntry ==
    /\ pc = "entry"
    /\ IF NotConfigured(bot, CHAT_ID)
       THEN /\ log' = "warning"
            /\ guardResult' = "skip"
            /\ pc' = "idle"
            /\ UNCHANGED <<msg, lastSignal>>
       ELSE /\ lastSignal' = gold_signal
            /\ msg' = FormatMessage(gold_signal)
            /\ guardResult' = "attempt"
            /\ pc' = "send"
            /\ UNCHANGED log
    /\ lastOp' = "entry"
    /\ UNCHANGED <<config, running, nextRun, now, submitted, sendCalls, ticks,
                   outcome, failures, escaped, http, shutdownRan>>

SendRaisedRetry(e) ==
    /\ sendCalls' = sendCalls + 2
    /\ outcome' = e
    /\ failures' = failures + 1
    /\ IF Caught(e)
       THEN log' = "error" /\ UNCHANGED escaped
       ELSE escaped' = TRUE /\ UNCHANGED log

\* bot.send_message raised e: the except clause logs it
SendRaised(e) ==
    /\ sendCalls' = sendCalls + 1
    /\ outcome' = e
    /\ failures' = failures + 1
    /\ IF Caught(e)
       THEN log' = "error" /\ UNCHANGED escaped
       ELSE escaped' = TRUE /\ UNCHANGED log

\* bot.send_message returned
SendReturned ==
    /\ sendCalls' = sendCalls + 1
    /\ outcome' = "ok"
    /\ log' = "info"
    /\ UNCHANGED <<failures, escaped>>

\* bot.send_message(chat_id=CHAT_ID, text=msg) and the rest of send_signal
BotSendMessage ==
    /\ pc = "send"
    /\ submitted' = msg
    /\ \E o \in Outcomes : IF o = "ok" THEN SendReturned ELSE SendRaised(o)
    /\ pc' = "idle"
    /\ lastOp' = "send"
    /\ UNCHANGED <<config, running, nextRun, now, msg, ticks, guardResult,
                   http, lastSignal, shutdownRan>>

(***************************************************************************)
(* HTTP handlers.                                                          *)
(***************************************************************************)
home ==
    /\ lastSignal' = gold_signal
    /\ resp' = [resp EXCEPT !["home"] =
                  [status |-> 200,
                   content_type |-> "text/html",
                   color |-> Color(gold_signal.bias),
                   bias |-> gold_signal.bias,
                   confidence |-> gold_signal.confidence,
                   reasons |-> gold_signal.reasons,
                   alerts |-> AlertsStatus(bot, CHAT_ID)]]
    /\ stale' = stale \ {"home"}
    /\ lastOp' = "home"
    /\ UNCHANGED <<config, running, nextRun, now, job, ticks, shutdownRan>>

get_signal ==
    /\ lastSignal' = gold_signal
    /\ resp' = [resp EXCEPT !["signal"] = [status |-> 200, body |-> gold_signal]]
    /\ stale' = stale \ {"signal"}
    /\ lastOp' = "signal"
    /\ UNCHANGED <<config, running, nextRun, now, job, ticks, shutdownRan>>

health_check_restarting ==
    /\ resp' = [resp EXCEPT !["health"] =
                  [status |-> 200,
                   body |-> [status |-> "healthy",
                             telegram_configured |->
                                 TelegramConfigured(bot, CHAT_ID),
                             scheduler_running |-> running]]]
    /\ stale' = stale \ {"health"}
    /\ lastOp' = "health"
    /\ running' = TRUE
    /\ UNCHANGED <<config, nextRun, now, job, ticks, lastSignal, shutdownRan>>

health_check ==
    /\ resp' = [resp EXCEPT !["health"] =
                  [status |-> 200,
                   body |-> [status |-> "healthy",
                             telegram_configured |->
                                 TelegramConfigured(bot, CHAT_ID),
                             scheduler_running |-> running]]]
    /\ stale' = stale \ {"health"}
    /\ lastOp' = "health"
    /\ UNCHANGED <<config, running, nextRun, now, job, ticks, lastSignal,
                   shutdownRan>>

(***************************************************************************)
(* Shutdown.                                                               *)
(***************************************************************************)
SchedulerPause == running' = running

\* scheduler.shutdown(): the scheduler's state becomes STATE_STOPPED
SchedulerShutdown == running' = FALSE

\* the "shutdown" event of the application, raised once
shutdown_event ==
    /\ ~shutdownRan
    /\ SchedulerShutdown
    /\ shutdownRan' = TRUE
    /\ stale' = {e \in Endpoints : resp[e] # NoResp}
    /\ lastOp' = "shutdown"
    /\ UNCHANGED <<config, nextRun, now, job, ticks, resp, lastSignal>>

Next ==
    \/ Advance
    \/ Tick
    \/ SendSignalEntry
    \/ BotSendMessage
    \/ home
    \/ get_signal
    \/ health_check
    \/ shutdown_event

Spec == Init /\ [][Next]_vars

TypeOK ==
    /\ BOT_TOKEN \in TokenValues
    /\ CHAT_ID \in ChatValues
    /\ running \in BOOLEAN
    /\ now \in 0..MaxTime
    /\ pc \in {"idle", "entry", "send"}
    /\ sendCalls \in Nat
    /\ ticks \in Nat
    /\ outcome \in {"none"} \cup Outcomes
    /\ failures \in Nat
    /\ escaped \in BOOLEAN
    /\ guardResult \in {"none", "skip", "attempt"}
    /\ log \in {"none", "warning", "info", "error"}
    /\ stale \subseteq Endpoints
    /\ shutdownRan \in BOOLEAN

(***************************************************************************)
(* Properties.                                                             *)
(***************************************************************************)
Unset(v) == v = None
NonEmpty(v) == v # None /\ v # Str("")
Failed == outcome \in {"NetworkError", "Unauthorized"}

ExpectedSignal ==
    [bias |-> "BUY",
     confidence |-> 70,
     reasons |-> <<"Inflation high", "Central banks buying gold",
                   "ETF inflows positive", "Geopolitical risk rising">>]

\* C1: when BOT_TOKEN or CHAT_ID is unset, the number of bot.send_message
\* calls stays 0 over any sequence of ticks and requests.
C1_NoSendWhenUnset ==
    (Unset(BOT_TOKEN) \/ Unset(CHAT_ID)) => sendCalls = 0

C1_Witness ==
    /\ Unset(BOT_TOKEN) \/ Unset(CHAT_ID)
    /\ ticks >= 2
    /\ pc = "idle"
    /\ guardResult = "skip"
    /\ resp["home"] # NoResp

\* C2: when the messaging client raises, send_signal ends in its own except
\* clause: nothing leaves send_signal, the failure is logged, the scheduler
\* keeps running until the shutdown and every endpoint answers with 200.
C2_FailureContained ==
    Failed =>
        /\ ~escaped
        /\ log = "error"
        /\ ~shutdownRan => running
        /\ \A e \in Endpoints : lastOp = e => resp[e].status = 200

C2_Witness ==
    /\ Failed
    /\ NonEmpty(BOT_TOKEN) /\ NonEmpty(CHAT_ID)
    /\ pc = "idle"
    /\ lastOp = "health"

\* C3: a tick makes at most one delivery attempt, so the send_message calls
\* never outnumber the ticks; after a failed attempt the job keeps its place
\* in the schedule (its next run is at most one interval away) and the
\* credential check of a later run again decides to attempt delivery.
C3_NoRetryWithinTick ==
    /\ sendCalls <= ticks
    /\ failures <= sendCalls
    /\ (Failed /\ running) =>
          /\ now <= nextRun
          /\ nextRun <= now + IntervalHours * Resolution
          /\ guardResult = "attempt"

C3_Witness ==
    /\ failures = 2
    /\ sendCalls = 2
    /\ ticks = 2
    /\ running

\* C4 as stated: telegram_configured is false when a credential is unset and
\* true when both are set.
C4_Original ==
    resp["health"] # NoResp =>
        (resp["health"].body.telegram_configured
            <=> (~Unset(BOT_TOKEN) /\ ~Unset(CHAT_ID)))

\* C4 amended: telegram_configured is true exactly when BOT_TOKEN and CHAT_ID
\* are both set to a non-empty value, whatever the deliveries did, and no
\* step changes the configuration it is computed from.
C4_ConfiguredFlag ==
    [][/\ resp'["health"] # NoResp =>
            (resp'["health"].body.telegram_configured
                <=> (NonEmpty(BOT_TOKEN') /\ NonEmpty(CHAT_ID')))
       /\ UNCHANGED <<BOT_TOKEN, CHAT_ID, bot>>]_vars

C4_Witness ==
    /\ lastOp = "health"
    /\ Failed
    /\ resp["health"].body.telegram_configured

\* C5: scheduler.running is true until the shutdown handler has run and
\* false afterwards, and a /health response reports exactly that.
C5_RunningState ==
    /\ running <=> ~shutdownRan
    /\ lastOp = "health" =>
          (resp["health"].body.scheduler_running <=> ~shutdownRan)

C5_Witness ==
    /\ lastOp = "health"
    /\ shutdownRan
    /\ ticks >= 1
    /\ ~resp["health"].body.scheduler_running

\* C6: the n-th run of send_signal starts exactly n intervals after the
\* start, so none starts before start+1h and consecutive runs are one
\* interval apart, and no run starts once the shutdown handler has run.
C6_Schedule ==
    [][ticks' # ticks =>
          /\ ticks' = ticks + 1
          /\ ~shutdownRan
          /\ now = StartTime + ticks' * IntervalHours * Resolution]_vars

C6_Witness ==
    /\ ticks >= 2
    /\ shutdownRan
    /\ now > nextRun

\* C7: every gold_signal() call, from GET /, GET /api/signal or a tick,
\* returns the same record, and GET /api/signal returns exactly that record.
C7_SignalConstant ==
    /\ lastSignal \in {NoSignal, ExpectedSignal}
    /\ resp["signal"] # NoResp =>
          resp["signal"] = [status |-> 200, body |-> ExpectedSignal]
    /\ resp["home"] # NoResp =>
          /\ resp["home"].bias = ExpectedSignal.bias
          /\ resp["home"].confidence = ExpectedSignal.confidence
          /\ resp["home"].reasons = ExpectedSignal.reasons

C7_Witness ==
    /\ resp["home"] # NoResp
    /\ resp["signal"] # NoResp
    /\ sendCalls >= 1
    /\ lastSignal = ExpectedSignal

\* C8 as stated: the submitted text is a title line, the Bias line, the
\* Confidence line, a blank line and then the reason lines, nothing else.
C8_Original ==
    sendCalls > 0 =>
        /\ Len(submitted) = 4 + Len(ExpectedSignal.reasons)
        /\ submitted[2] = "Bias: BUY"
        /\ submitted[3] = "Confidence: 70%"
        /\ submitted[4] = ""
        /\ \A i \in 1..Len(ExpectedSignal.reasons) :
              submitted[4 + i] = "- " \o ExpectedSignal.reasons[i]

\* C8 amended: the submitted text is the title line "GOLD SIGNAL", a blank
\* line, the Bias line, the Confidence line, a blank line, the header line
\* "Reasons:" and then one "- reason" line per reason, in order.
C8_MessageLines ==
    sendCalls > 0 =>
        submitted = <<"GOLD SIGNAL",
                      "",
                      "Bias: BUY",
                      "Confidence: 70%",
                      "",
                      "Reasons:",
                      "- Inflation high",
                      "- Central banks buying gold",
                      "- ETF inflows positive",
                      "- Geopolitical risk rising">>

C8_Witness ==
    /\ sendCalls > 0
    /\ NonEmpty(BOT_TOKEN) /\ NonEmpty(CHAT_ID)
    /\ Len(submitted) = 10

\* C9: a request to GET /, GET /api/signal or GET /health changes neither
\* the configuration, the scheduler's running state, the next fire time nor
\* the delivery counters, answers with status 200, and answers as the
\* previous request to that endpoint did unless a shutdown came in between.
C9_ReadOnlyEndpoints ==
    [][\A e \in Endpoints :
          lastOp' = e =>
              /\ UNCHANGED <<BOT_TOKEN, CHAT_ID, bot, running, nextRun,
                             sendCalls, ticks, failures>>
              /\ resp'[e].status = 200
              /\ (resp[e] # NoResp /\ e \notin stale) => resp'[e] = resp[e]]_vars

C9_Witness ==
    /\ lastOp \in Endpoints
    /\ Unset(BOT_TOKEN)
    /\ ticks >= 1
    /\ shutdownRan
    /\ \A e \in Endpoints : resp[e] # NoResp /\ e \notin stale

\* C10: the dashboard shows 'Active' exactly when /health reports
\* telegram_configured: true, exactly when a run of send_signal goes on to
\* attempt a delivery; also when a credential is set to the empty string.
C10_ConfiguredAgreement ==
    /\ (resp["home"] # NoResp /\ resp["health"] # NoResp) =>
          (resp["home"].alerts = "Active"
              <=> resp["health"].body.telegram_configured)
    /\ (resp["home"] # NoResp /\ guardResult # "none") =>
          (resp["home"].alerts = "Active" <=> guardResult = "attempt")
    /\ (resp["health"] # NoResp /\ guardResult # "none") =>
          (resp["health"].body.telegram_configured
              <=> guardResult = "attempt")
    /\ resp["home"] # NoResp =>
          resp["home"].alerts \in {"Active", "Not configured"}

C10_Witness ==
    /\ BOT_TOKEN = Str("123:abc")
    /\ CHAT_ID = Str("")
    /\ resp["home"] # NoResp
    /\ resp["home"].alerts = "Not configured"
    /\ resp["health"] # NoResp
    /\ ~resp["health"].body.telegram_configured
    /\ guardResult = "skip"
====
